---------------------------- MODULE Spec2Model ----------------------------
(***************************************************************************)
(* Model of the Aisha backend: the phone normaliser and the three gateway  *)
(* operations of service/whatsapp_service.py, and the request handlers of  *)
(* main.py (waiting list, send-text, send-template, send-media) running as *)
(* interleaved tasks over the two tables of models.py.                     *)
(*                                                                         *)
(* A Python str is a sequence of one-character strings.  "sup2" stands for *)
(* a character such as U+00B2, for which str.isdigit() is true although it *)
(* is not one of 0..9.                                                     *)
(***************************************************************************)
EXTENDS Integers, Sequences, FiniteSets, TLC

\* ------------------------------------------------------------------ bounds
\* longest free-form phone string given to the normaliser
MaxLen == 3
\* most separator characters inserted into an intake spelling
MaxSeps == 2
\* most requests the server receives in one run
MaxRequests == 2

\* ------------------------------------------------------- program constants
\* main.py:32  \d{9}
SubscriberLen == 9
\* main.py:41  {2,50}
UsernameMin == 2
UsernameMax == 50

\* ------------------------------------------------------------- characters
AsciiDigits == {"0", "1", "2", "3", "4", "5", "6", "7", "8", "9"}
OtherDigits == {"sup2"}
Whitespace  == {" "}
Letters     == {"A", "l", "i"}
Plus        == "+"

\* str.isdigit()
IsDigit(c) == c \in AsciiDigits \cup OtherDigits
\* str.isspace(), the characters str.strip() removes
IsSpace(c) == c \in Whitespace

\* str.startswith(prefix)
StartsWith(s, prefix) ==
    /\ Len(s) >= Len(prefix)
    /\ SubSeq(s, 1, Len(prefix)) = prefix

RECURSIVE LStrip(_)
LStrip(s) == IF s # <<>> /\ IsSpace(Head(s)) THEN LStrip(Tail(s)) ELSE s

RECURSIVE RStrip(_)
RStrip(s) ==
    IF s # <<>> /\ IsSpace(s[Len(s)]) THEN RStrip(SubSeq(s, 1, Len(s) - 1)) ELSE s

\* str.strip()
Strip(s) == RStrip(LStrip(s))

\* ''.join(c for c in phone_number if c.isdigit() or c == '+')
KeepDigitsAndPlus(s) == SelectSeq(s, LAMBDA c : IsDigit(c) \/ c = Plus)

\* ------------------------------------------------------- the normaliser
\* a plausible slip: the leading 0 is kept behind the country code
NormalizeKeepsZero(phone_number) ==
    LET p == KeepDigitsAndPlus(Strip(phone_number)) IN
    IF StartsWith(p, <<"0">>) THEN <<"+", "2", "5", "4">> \o p
    ELSE IF StartsWith(p, <<"2", "5", "4">>) THEN <<"+">> \o p
    ELSE IF ~StartsWith(p, <<"+">>) THEN <<"+">> \o p
    ELSE p

\* a plausible slip: the country code is put in without its '+'
NormalizeNoPlus(phone_number) ==
    LET p == KeepDigitsAndPlus(Strip(phone_number)) IN
    IF StartsWith(p, <<"0">>) THEN <<"2", "5", "4">> \o Tail(p)
    ELSE IF StartsWith(p, <<"2", "5", "4">>) THEN <<"+">> \o p
    ELSE IF ~StartsWith(p, <<"+">>) THEN <<"+">> \o p
    ELSE p

\* WhatsAppService._normalize_phone
_normalize_phone(phone_number) ==
    LET p == KeepDigitsAndPlus(Strip(phone_number)) IN
    IF StartsWith(p, <<"0">>) THEN <<"+", "2", "5", "4">> \o Tail(p)
    ELSE IF StartsWith(p, <<"2", "5", "4">>) THEN <<"+">> \o p
    ELSE IF ~StartsWith(p, <<"+">>) THEN <<"+">> \o p
    ELSE p

\* ---------------------------------------------------------------- state
VARIABLES
    NGUMZO_API_KEY,     \* whatsapp_service.py:12, read once at import
    waiting_list,       \* table waiting_list, rows in insertion order
    whatsapp_messages,  \* table whatsapp_messages, rows in insertion order
    requests,           \* one entry per request received, in arrival order
    nphase,             \* the normaliser run: where it stands
    nraw,               \* the normaliser run: the input string
    nout,               \* the normaliser run: _normalize_phone(nraw)
    nagain,             \* the normaliser run: _normalize_phone(nout)
    npayload            \* the normaliser run: the provider payload built from nraw

vars == <<NGUMZO_API_KEY, waiting_list, whatsapp_messages, requests,
          nphase, nraw, nout, nagain, npayload>>
serverVars == <<NGUMZO_API_KEY, waiting_list, whatsapp_messages, requests>>
normVars == <<nphase, nraw, nout, nagain, npayload>>

\* Python's None, and a key a dict does not carry
None == "None"
Absent == "<absent>"
\* os.getenv("NGUMZO_API_KEY"): unset, or set
ApiKeys == {None, "secret"}
\* whatsapp_service.py:14
NGUMZO_SENDER_ID == "sender"
\* bool(x) of an optional string
Truthy(x) == x # None /\ x # ""

\* ------------------------------------------------------ provider payloads
NoPayload ==
    [api_key |-> Absent, sender_id |-> Absent, to |-> <<>>, message |-> Absent,
     message_type |-> Absent, template_name |-> Absent, parameters |-> Absent,
     media_url |-> Absent, caption |-> Absent]

\* a plausible slip: the destination is the phone number as given
TextPayloadRaw(phone_number, message) ==
    [api_key |-> NGUMZO_API_KEY, sender_id |-> NGUMZO_SENDER_ID,
     to |-> phone_number, message |-> message, message_type |-> "text",
     template_name |-> Absent, parameters |-> Absent,
     media_url |-> Absent, caption |-> Absent]

\* send_message: phone_number = _normalize_phone(phone_number); payload = {...}
TextPayload(phone_number, message) ==
    [api_key |-> NGUMZO_API_KEY, sender_id |-> NGUMZO_SENDER_ID,
     to |-> _normalize_phone(phone_number), message |-> message,
     message_type |-> "text",
     template_name |-> Absent, parameters |-> Absent,
     media_url |-> Absent, caption |-> Absent]

\* send_template_message: "parameters": parameters or []
TemplatePayload(phone_number, template_name, parameters) ==
    [api_key |-> NGUMZO_API_KEY, sender_id |-> NGUMZO_SENDER_ID,
     to |-> _normalize_phone(phone_number), message |-> Absent,
     message_type |-> "template", template_name |-> template_name,
     parameters |-> IF parameters = None \/ parameters = "[]" THEN "[]"
                    ELSE parameters,
     media_url |-> Absent, caption |-> Absent]

\* send_media_message: "message_type": media_type
MediaPayload(phone_number, media_url, media_type, caption) ==
    [api_key |-> NGUMZO_API_KEY, sender_id |-> NGUMZO_SENDER_ID,
     to |-> _normalize_phone(phone_number), message |-> Absent,
     message_type |-> media_type, template_name |-> Absent,
     parameters |-> Absent, media_url |-> media_url, caption |-> caption]

\* ------------------------------------------------------ result envelopes
\* An envelope's error is a sequence of string pieces (an f-string's parts).
\* JSON values a provider response body can parse to
JNull == [t |-> "null", hasMessages |-> FALSE, messages |-> <<>>]
JDict(hasMessages, messages) ==
    [t |-> "dict", hasMessages |-> hasMessages, messages |-> messages]
\* the {} of result.get("data", {}) and of .get("messages", [{}])
EmptyDict == JDict(FALSE, <<>>)
EmptyMessage == [hasId |-> FALSE, id |-> None]

SuccessEnvelope(hasData, data) ==
    [success |-> TRUE, hasData |-> hasData, data |-> data, error |-> <<>>]
FailureEnvelope(error) ==
    [success |-> FALSE, hasData |-> FALSE, data |-> JNull, error |-> error]
\* no envelope: the gateway was not called, or has not returned yet
NoEnvelope == [success |-> FALSE, hasData |-> FALSE, data |-> JNull, error |-> <<>>]

\* whatsapp_service.py:49-52
MissingKeyEnvelope ==
    FailureEnvelope(<<"NGUMZO_API_KEY not found in environment variables">>)
\* whatsapp_service.py:86-89, 133-136, 181-184
ExceptionEnvelope(e) == FailureEnvelope(<<"Exception: ", e>>)

\* call_api (service/api_service.py): what one call can come back with.  Spec
\* 4.1: a 2xx response gives success with the parsed body as data, anything
\* else a failure envelope.  The gateway operations also guard against the
\* call raising, so that outcome is drawn as well.
ApiEnvelopes ==
    { SuccessEnvelope(FALSE, JNull),
      SuccessEnvelope(TRUE, JNull),
      SuccessEnvelope(TRUE, JDict(FALSE, <<>>)),
      SuccessEnvelope(TRUE, JDict(TRUE, <<>>)),
      SuccessEnvelope(TRUE, JDict(TRUE, <<EmptyMessage>>)),
      SuccessEnvelope(TRUE, JDict(TRUE, <<[hasId |-> TRUE, id |-> "wamid.1"]>>)),
      FailureEnvelope(<<"HTTP 500">>) }
ApiOutcomes ==
    { [raised |-> FALSE, envelope |-> e, exc |-> Absent] : e \in ApiEnvelopes }
    \cup { [raised |-> TRUE, envelope |-> NoEnvelope, exc |-> "timeout"] }

\* ------------------------------------------------- the gateway operations
\* The part of an operation up to its await of call_api: either it returns an
\* envelope at once (returned), or it has built the payload it sends.
GatewayReturns(envelope) ==
    [returned |-> TRUE, envelope |-> envelope, payload |-> NoPayload]
GatewayCalls(payload) ==
    [returned |-> FALSE, envelope |-> NoEnvelope, payload |-> payload]

\* WhatsAppService.send_message, lines 41-72
send_message(phone_number, message) ==
    IF ~Truthy(NGUMZO_API_KEY) THEN GatewayReturns(MissingKeyEnvelope)
    ELSE GatewayCalls(TextPayload(phone_number, message))

\* WhatsAppService.send_template_message, lines 101-119: no key check
send_template_message(phone_number, template_name, parameters) ==
    GatewayCalls(TemplatePayload(phone_number, template_name, parameters))

\* WhatsAppService.send_media_message, lines 149-167: no key check
send_media_message(phone_number, media_url, media_type, caption) ==
    GatewayCalls(MediaPayload(phone_number, media_url, media_type, caption))

\* a plausible slip: no except clause, the exception leaves the operation
GatewayResultUnguarded(outcome) ==
    [raised |-> outcome.raised, envelope |-> outcome.envelope]

\* The part of an operation after the await: result = await call_api(...);
\* return result, or the except clause's envelope.  raised: whether the
\* operation raises to its caller.
GatewayResult(outcome) ==
    IF outcome.raised
    THEN [raised |-> FALSE, envelope |-> ExceptionEnvelope(outcome.exc)]
    ELSE [raised |-> FALSE, envelope |-> outcome.envelope]

\* ------------------------------------------------------ request intake
CountryPrefixes == { <<"2", "5", "4">>, <<"+", "2", "5", "4">>, <<"0">> }

\* WaitingListCreate.validate_phone: re.match(r'^(?:254|\+254|0)\d{9}$', v)
validate_phone(v) ==
    \E pre \in CountryPrefixes :
        /\ StartsWith(v, pre)
        /\ Len(v) = Len(pre) + SubscriberLen
        /\ \A i \in (Len(pre) + 1)..Len(v) : v[i] \in AsciiDigits

\* WaitingListCreate.validate_username: re.match(r'^[a-zA-Z\s-]{2,50}$', v)
validate_username(v) ==
    /\ Len(v) >= UsernameMin
    /\ Len(v) <= UsernameMax
    /\ \A i \in 1..Len(v) : v[i] \in Letters \cup Whitespace \cup {"-"}

\* the subscriber number used by the requests of a run
Subscriber == <<"7", "1", "2", "3", "4", "5", "6", "7", "8">>
\* phone numbers of waiting-list requests: two spellings of one number, and
\* one the validator refuses
WaitingPhones ==
    { <<"0">> \o Subscriber, <<"+", "2", "5", "4">> \o Subscriber, <<"0", "7">> }
Usernames == { <<"A", "l", "i">>, <<"A">> }
\* phone numbers of send requests, which no validator screens
SendPhones == { <<"0">> \o Subscriber, <<"7", "+">> }
\* message texts, template names and URLs, as sequences of string pieces
Messages == { <<"hello">> }
TemplateNames == { <<"welcome">> }
ParameterLists == {None}
MediaUrls == { <<"http://img">> }
MediaTypes == {"image"}
Captions == {None}

\* main.py:96, the f-string's parts
WelcomeMessage(username) ==
    <<"Hello ", username, ", thanks for joining our waiting list!">>

\* ------------------------------------------------------------- requests
\* A request as received; pc "awaiting" while its task is suspended in
\* call_api, "done" once the response is out.
\*   gw_calls   gateway operations invoked      api_calls  call_api invoked
\*   sent       the payload given to call_api   api_out    what call_api did
\*   gw_raised  the gateway operation raised    envelope   what it returned
\*   status     HTTP status of the response     body       the envelope in it
\*   row_id     id of the waiting_list row inserted (0: none)
\*   resp_id, whatsapp_sent   the waiting-list response's fields
NoOutcome == [raised |-> FALSE, envelope |-> NoEnvelope, exc |-> Absent]

Received(kind, phone_number, arg, media_type) ==
    [kind |-> kind, phone_number |-> phone_number, arg |-> arg,
     media_type |-> media_type, pc |-> "done", status |-> 0,
     gw_calls |-> 0, api_calls |-> 0, sent |-> NoPayload, api_out |-> NoOutcome,
     gw_raised |-> FALSE, envelope |-> NoEnvelope, body |-> NoEnvelope,
     row_id |-> 0, resp_id |-> 0, whatsapp_sent |-> FALSE]

\* the request suspended at "await call_api(...)" inside the gateway operation
Suspended(req, g) ==
    [req EXCEPT !.pc = "awaiting", !.gw_calls = 1, !.api_calls = 1,
                !.sent = g.payload]

\* ------------------------------------------------- waiting-list handler
\* a plausible slip: the duplicate check compares nothing
ExistingNever(phone_number) == FALSE

\* a plausible slip: the duplicate check compares normalised numbers
ExistingNormalised(phone_number) ==
    \E k \in 1..Len(waiting_list) :
        _normalize_phone(waiting_list[k].phone_number)
            = _normalize_phone(phone_number)

\* main.py:83-85  db.query(WaitingList).filter(phone_number == ...).first()
Existing(phone_number) ==
    \E k \in 1..Len(waiting_list) : waiting_list[k].phone_number = phone_number

\* main.py:87-88 raises HTTPException(400) inside the try; the except clause
\* of line 108 catches it (HTTPException is an Exception) and raises 422
DuplicateStatus == 422

\* a plausible slip: a failed welcome message fails the request
WaitingListResponseStrict(req, g) ==
    IF g.raised \/ ~g.envelope.success
    THEN [req EXCEPT !.pc = "done", !.status = 422, !.gw_raised = g.raised,
                     !.envelope = g.envelope]
    ELSE [req EXCEPT !.pc = "done", !.status = 200, !.envelope = g.envelope,
                     !.resp_id = req.row_id, !.whatsapp_sent = TRUE]

\* main.py:103-109  the response once send_message is back
WaitingListResponse(req, g) ==
    IF g.raised
    THEN [req EXCEPT !.pc = "done", !.status = 422, !.gw_raised = TRUE]
    ELSE [req EXCEPT !.pc = "done", !.status = 200, !.envelope = g.envelope,
                     !.resp_id = req.row_id,
                     !.whatsapp_sent = g.envelope.success]

\* ------------------------------------------------------- send handlers
\* result.get("data", {}).get("messages", [{}])[0].get("id")
\* raised: the expression raises (AttributeError on a data that is no dict,
\* IndexError on an empty messages list)
ExternalMessageId(result) ==
    LET data == IF result.hasData THEN result.data ELSE EmptyDict IN
    IF data.t # "dict" THEN [raised |-> TRUE, id |-> None]
    ELSE LET messages == IF data.hasMessages THEN data.messages
                         ELSE <<EmptyMessage>> IN
         IF messages = <<>> THEN [raised |-> TRUE, id |-> None]
         ELSE [raised |-> FALSE,
               id |-> IF messages[1].hasId THEN messages[1].id ELSE None]

\* message_content of the three handlers: main.py:127, 152, 178
MessageContent(req) ==
    IF req.kind = "template" THEN <<"Template: ">> \o req.arg ELSE req.arg

\* message_type of the three handlers: main.py:128, 153, 179
MessageType(req) ==
    CASE req.kind = "text" -> "text"
      [] req.kind = "template" -> "template"
      [] OTHER -> req.media_type

\* WhatsAppMessage(...) of main.py:125-131; req_no is the request it was
\* stored for (not a column)
MessageRecord(req_no, req, external_message_id) ==
    [phone_number |-> req.phone_number, message_content |-> MessageContent(req),
     message_type |-> MessageType(req), status |-> "sent",
     external_message_id |-> external_message_id, req_no |-> req_no]

\* a plausible slip: the record is stored whatever the envelope says
SendOutcomeAlwaysStores(req_no, req, g) ==
    IF g.raised THEN [status |-> 500, body |-> NoEnvelope, rows |-> <<>>]
    ELSE LET x == ExternalMessageId(g.envelope) IN
         [status |-> 200, body |-> g.envelope,
          rows |-> <<MessageRecord(req_no, req, x.id)>>]

\* main.py:123-137 (and 149-162, 175-188): what a send handler does with the
\* gateway's result: the rows it commits, the status and the body it answers
SendOutcome(req_no, req, g) ==
    IF g.raised THEN [status |-> 500, body |-> NoEnvelope, rows |-> <<>>]
    ELSE IF g.envelope.success
    THEN LET x == ExternalMessageId(g.envelope) IN
         IF x.raised THEN [status |-> 500, body |-> NoEnvelope, rows |-> <<>>]
         ELSE [status |-> 200, body |-> g.envelope,
               rows |-> <<MessageRecord(req_no, req, x.id)>>]
    ELSE [status |-> 200, body |-> g.envelope, rows |-> <<>>]

\* the request answered by a send handler
SendAnswered(req_no, req, g) ==
    LET o == SendOutcome(req_no, req, g) IN
    [req EXCEPT !.pc = "done", !.status = o.status, !.body = o.body,
                !.gw_raised = g.raised, !.envelope = g.envelope]

\* ------------------------------------------------------------- actions
CanReceive == nphase = "off" /\ Len(requests) < MaxRequests

\* a waiting-list request the validators refuse: the handler never runs
WaitingListInvalid ==
    /\ CanReceive
    /\ \E username \in Usernames, phone_number \in WaitingPhones :
        /\ ~(validate_phone(phone_number) /\ validate_username(username))
        /\ requests' = Append(requests,
              [Received("waiting", phone_number, username, None)
                  EXCEPT !.status = 422])
    /\ UNCHANGED <<NGUMZO_API_KEY, waiting_list, whatsapp_messages, normVars>>

\* create_waiting_list_item up to its response or to the await in send_message
create_waiting_list_item ==
    /\ CanReceive
    /\ \E username \in Usernames, phone_number \in WaitingPhones :
        /\ validate_phone(phone_number) /\ validate_username(username)
        /\ LET req == Received("waiting", phone_number, username, None) IN
           IF Existing(phone_number)
           THEN /\ requests' = Append(requests,
                       [req EXCEPT !.status = DuplicateStatus])
                /\ UNCHANGED waiting_list
           ELSE LET id == Len(waiting_list) + 1
                    row == [id |-> id, username |-> username,
                            phone_number |-> phone_number]
                    g == send_message(phone_number, WelcomeMessage(username))
                    stored == [req EXCEPT !.row_id = id, !.gw_calls = 1]
                IN /\ waiting_list' = Append(waiting_list, row)
                   /\ requests' = Append(requests,
                         IF g.returned
                         THEN WaitingListResponse(stored,
                                 [raised |-> FALSE, envelope |-> g.envelope])
                         ELSE Suspended(stored, g))
    /\ UNCHANGED <<NGUMZO_API_KEY, whatsapp_messages, normVars>>

\* create_waiting_list_item from the return of call_api to its response
create_waiting_list_item_resume(i) ==
    /\ requests[i].kind = "waiting" /\ requests[i].pc = "awaiting"
    /\ \E outcome \in ApiOutcomes :
        requests' = [requests EXCEPT ![i] =
            WaitingListResponse([@ EXCEPT !.api_out = outcome],
                                GatewayResult(outcome))]
    /\ UNCHANGED <<NGUMZO_API_KEY, waiting_list, whatsapp_messages, normVars>>

\* a send handler whose gateway operation went as far as g
SendStep(req, g) ==
    LET req_no == Len(requests) + 1 IN
    IF g.returned
    THEN LET r == [raised |-> FALSE, envelope |-> g.envelope]
             called == [req EXCEPT !.gw_calls = 1]
         IN /\ requests' = Append(requests, SendAnswered(req_no, called, r))
            /\ whatsapp_messages' =
                  whatsapp_messages \o SendOutcome(req_no, called, r).rows
    ELSE /\ requests' = Append(requests, Suspended(req, g))
         /\ UNCHANGED whatsapp_messages

\* send_whatsapp_text up to its response or to the await
send_whatsapp_text ==
    /\ CanReceive
    /\ \E phone_number \in SendPhones, message \in Messages :
        SendStep(Received("text", phone_number, message, None),
                 send_message(phone_number, message))
    /\ UNCHANGED <<NGUMZO_API_KEY, waiting_list, normVars>>

\* send_whatsapp_template up to the await
send_whatsapp_template ==
    /\ CanReceive
    /\ \E phone_number \in SendPhones, template_name \in TemplateNames,
          parameters \in ParameterLists :
        SendStep(Received("template", phone_number, template_name, None),
                 send_template_message(phone_number, template_name, parameters))
    /\ UNCHANGED <<NGUMZO_API_KEY, waiting_list, normVars>>

\* send_whatsapp_media up to the await
send_whatsapp_media ==
    /\ CanReceive
    /\ \E phone_number \in SendPhones, media_url \in MediaUrls,
          media_type \in MediaTypes, caption \in Captions :
        SendStep(Received("media", phone_number, media_url, media_type),
                 send_media_message(phone_number, media_url, media_type, caption))
    /\ UNCHANGED <<NGUMZO_API_KEY, waiting_list, normVars>>

\* a send handler from the return of call_api to its response
SendResume(i, kind) ==
    /\ requests[i].kind = kind /\ requests[i].pc = "awaiting"
    /\ \E outcome \in ApiOutcomes :
        LET req == [requests[i] EXCEPT !.api_out = outcome]
            g == GatewayResult(outcome)
        IN /\ requests' = [requests EXCEPT ![i] = SendAnswered(i, req, g)]
           /\ whatsapp_messages' =
                 whatsapp_messages \o SendOutcome(i, req, g).rows
    /\ UNCHANGED <<NGUMZO_API_KEY, waiting_list, normVars>>

send_whatsapp_text_resume(i) == SendResume(i, "text")
send_whatsapp_template_resume(i) == SendResume(i, "template")
send_whatsapp_media_resume(i) == SendResume(i, "media")

Init ==
    /\ NGUMZO_API_KEY \in ApiKeys
    /\ waiting_list = <<>>
    /\ whatsapp_messages = <<>>
    /\ requests = <<>>
    /\ nphase = "off"
    /\ nraw = <<>>
    /\ nout = <<>>
    /\ nagain = <<>>
    /\ npayload = NoPayload

Next ==
    \/ WaitingListInvalid
    \/ create_waiting_list_item
    \/ send_whatsapp_text
    \/ send_whatsapp_template
    \/ send_whatsapp_media
    \/ \E i \in 1..Len(requests) : create_waiting_list_item_resume(i)
    \/ \E i \in 1..Len(requests) : send_whatsapp_text_resume(i)
    \/ \E i \in 1..Len(requests) : send_whatsapp_template_resume(i)
    \/ \E i \in 1..Len(requests) : send_whatsapp_media_resume(i)

Spec == Init /\ [][Next]_vars

\* ----------------------------------------------------- the normaliser run
\* The normaliser and the payload builders applied to one phone string
\* drawn from: every string of at most MaxLen characters over NormChars, and
\* every accepted intake spelling of a subscriber number with at most MaxSeps
\* separator characters put anywhere into it.
NormChars == {"0", "2", "5", "4", "+", "-", " ", "sup2"}
SepChars == {"-", " "}

RECURSIVE StringsUpTo(_)
StringsUpTo(n) ==
    IF n = 0 THEN { <<>> }
    ELSE LET shorter == StringsUpTo(n - 1) IN
         shorter \cup { Append(s, c) : s \in shorter, c \in NormChars }

SubscriberTail == <<"5", "4", "3", "4", "5", "6", "7", "8">>
\* subscriber numbers that start like a trunk 0, like the country code, or
\* like neither
Subscribers == { <<a>> \o SubscriberTail : a \in {"0", "2", "7"} }
Spellings(S) == { pre \o S : pre \in CountryPrefixes }

RECURSIVE WithSeps(_, _)
WithSeps(base, n) ==
    IF n = 0 THEN base
    ELSE LET fewer == WithSeps(base, n - 1) IN
         fewer \cup UNION {
             { SubSeq(s, 1, k) \o <<c>> \o SubSeq(s, k + 1, Len(s)) :
                 k \in 0..Len(s), c \in SepChars } : s \in fewer }

InitNorm ==
    /\ NGUMZO_API_KEY = "secret"
    /\ waiting_list = <<>>
    /\ whatsapp_messages = <<>>
    /\ requests = <<>>
    /\ nphase = "input"
    /\ \/ nraw \in StringsUpTo(MaxLen)
       \/ \E S \in Subscribers :
            \E spelling \in Spellings(S) :
                nraw \in WithSeps({spelling}, MaxSeps)
    /\ nout = <<>>
    /\ nagain = <<>>
    /\ npayload = NoPayload

\* _normalize_phone applied to the input
Normalize ==
    /\ nphase = "input"
    /\ nphase' = "once"
    /\ nout' = _normalize_phone(nraw)
    /\ UNCHANGED <<serverVars, nraw, nagain, npayload>>

\* _normalize_phone applied to its own result
NormalizeAgain ==
    /\ nphase = "once"
    /\ nphase' = "twice"
    /\ nagain' = _normalize_phone(nout)
    /\ UNCHANGED <<serverVars, nraw, nout, npayload>>

\* send_message given the input, up to the payload it sends
BuildTextPayload ==
    /\ nphase = "once"
    /\ nphase' = "text"
    /\ \E message \in Messages :
        npayload' = send_message(nraw, message).payload
    /\ UNCHANGED <<serverVars, nraw, nout, nagain>>

\* send_template_message given the input, up to the payload it sends
BuildTemplatePayload ==
    /\ nphase = "once"
    /\ nphase' = "template"
    /\ \E template_name \in TemplateNames, parameters \in ParameterLists :
        npayload' =
            send_template_message(nraw, template_name, parameters).payload
    /\ UNCHANGED <<serverVars, nraw, nout, nagain>>

\* send_media_message given the input, up to the payload it sends
BuildMediaPayload ==
    /\ nphase = "once"
    /\ nphase' = "media"
    /\ \E media_url \in MediaUrls, media_type \in MediaTypes,
          caption \in Captions :
        npayload' =
            send_media_message(nraw, media_url, media_type, caption).payload
    /\ UNCHANGED <<serverVars, nraw, nout, nagain>>

NextNorm ==
    \/ Normalize
    \/ NormalizeAgain
    \/ BuildTextPayload
    \/ BuildTemplatePayload
    \/ BuildMediaPayload

SpecNorm == InitNorm /\ [][NextNorm]_vars

\* =============================================================== claims
SendKinds == {"text", "template", "media"}
Done(i) == requests[i].pc = "done"
\* the rows of whatsapp_messages stored for request i
RowsOf(i) == { k \in 1..Len(whatsapp_messages) : whatsapp_messages[k].req_no = i }
\* request i went through a gateway operation, which has returned
GatewayReturned(i) == Done(i) /\ requests[i].gw_calls = 1

\* C1 (as claimed): with no API key configured, each of the three gateway
\* operations returns a failure envelope naming the missing key and makes no
\* call_api call.
C1_NoKeyNoCall ==
    \A i \in 1..Len(requests) :
        (requests[i].gw_calls = 1 /\ ~Truthy(NGUMZO_API_KEY)) =>
            /\ requests[i].api_calls = 0
            /\ Done(i)
            /\ requests[i].envelope = MissingKeyEnvelope

\* C2: a waiting-list request whose phone_number an earlier request already
\* put into the list is answered with a 4xx status, inserts no row and
\* invokes neither send_message nor call_api; every row of the list was
\* inserted by exactly one request.
IsDuplicate(i) ==
    /\ requests[i].kind = "waiting"
    /\ validate_phone(requests[i].phone_number)
    /\ validate_username(requests[i].arg)
    /\ \E j \in 1..(i - 1) :
        /\ requests[j].kind = "waiting"
        /\ requests[j].row_id > 0
        /\ requests[j].phone_number = requests[i].phone_number

C2_DuplicateRejected ==
    /\ \A i \in 1..Len(requests) :
        IsDuplicate(i) =>
            /\ Done(i)
            /\ requests[i].status \in 400..499
            /\ requests[i].row_id = 0
            /\ requests[i].gw_calls = 0
            /\ requests[i].api_calls = 0
    /\ \A k \in 1..Len(waiting_list) :
        Cardinality({ i \in 1..Len(requests) : requests[i].row_id = k }) = 1

C2_Witness ==
    \E i \in 1..Len(requests) : IsDuplicate(i) /\ Len(waiting_list) = 1

\* C3 (as claimed): a send handler whose gateway operation returned a success
\* envelope stores exactly one record for the request (its phone, content,
\* type, status "sent", the provider's messages[0].id or null) and answers
\* with the envelope, whatever the envelope's data is.
ClaimedMessageId(envelope) ==
    IF /\ envelope.hasData
       /\ envelope.data.t = "dict"
       /\ envelope.data.hasMessages
       /\ envelope.data.messages # <<>>
       /\ envelope.data.messages[1].hasId
    THEN envelope.data.messages[1].id
    ELSE None

C3_SuccessStored ==
    \A i \in 1..Len(requests) :
        (requests[i].kind \in SendKinds /\ GatewayReturned(i)
            /\ requests[i].envelope.success) =>
            /\ requests[i].status = 200
            /\ requests[i].body = requests[i].envelope
            /\ Cardinality(RowsOf(i)) = 1
            /\ \A k \in RowsOf(i) :
                whatsapp_messages[k] =
                    MessageRecord(i, requests[i],
                                  ClaimedMessageId(requests[i].envelope))

\* C4: a send handler whose gateway operation returned a failure envelope
\* stores no record and answers 200 with that envelope unchanged; every
\* stored record belongs to an answered request whose envelope had success.
C4_FailureNotStored ==
    /\ \A i \in 1..Len(requests) :
        (requests[i].kind \in SendKinds /\ GatewayReturned(i)
            /\ ~requests[i].envelope.success) =>
            /\ RowsOf(i) = {}
            /\ requests[i].status = 200
            /\ requests[i].body = requests[i].envelope
    /\ \A k \in 1..Len(whatsapp_messages) :
        LET i == whatsapp_messages[k].req_no IN
        /\ i \in 1..Len(requests)
        /\ requests[i].kind \in SendKinds
        /\ GatewayReturned(i)
        /\ requests[i].envelope.success

C4_Witness ==
    \E i \in 1..Len(requests), j \in 1..Len(requests) :
        /\ requests[i].kind \in SendKinds /\ GatewayReturned(i)
        /\ requests[i].api_calls = 1
        /\ ~requests[i].envelope.success
        /\ RowsOf(j) # {}

\* C5: no gateway operation raises to its caller; when call_api raised, the
\* operation returned a failure envelope whose error describes the exception,
\* and when call_api returned an envelope, the operation returned that one.
C5_NeverRaises ==
    \A i \in 1..Len(requests) :
        /\ ~requests[i].gw_raised
        /\ (GatewayReturned(i) /\ requests[i].api_calls = 1) =>
            IF requests[i].api_out.raised
            THEN /\ ~requests[i].envelope.success
                 /\ requests[i].envelope.error
                        = <<"Exception: ", requests[i].api_out.exc>>
            ELSE requests[i].envelope = requests[i].api_out.envelope

C5_Witness ==
    /\ \E i \in 1..Len(requests) :
        /\ requests[i].kind = "template" /\ GatewayReturned(i)
        /\ requests[i].api_out.raised
    /\ \E i \in 1..Len(requests) :
        /\ requests[i].kind = "text" /\ GatewayReturned(i)
        /\ requests[i].api_calls = 1
        /\ requests[i].envelope.success

\* C9: a valid waiting-list request whose phone_number no earlier request put
\* into the list is accepted: its row is in the table from the moment the
\* welcome message is sent and stays there, exactly one send_message call is
\* made for it, and its answer is 200 with the row's id and whatsapp_sent
\* equal to the envelope's success, whatever that is.
IsFresh(i) ==
    /\ requests[i].kind = "waiting"
    /\ validate_phone(requests[i].phone_number)
    /\ validate_username(requests[i].arg)
    /\ ~IsDuplicate(i)

C9_AcceptedWhateverTheSend ==
    \A i \in 1..Len(requests) :
        IsFresh(i) =>
            LET r == requests[i] IN
            /\ r.row_id \in 1..Len(waiting_list)
            /\ waiting_list[r.row_id] =
                  [id |-> r.row_id, username |-> r.arg,
                   phone_number |-> r.phone_number]
            /\ r.gw_calls = 1
            /\ r.api_calls <= 1
            /\ Done(i) =>
                /\ r.status = 200
                /\ r.resp_id = r.row_id
                /\ r.whatsapp_sent = r.envelope.success

C9_Witness ==
    /\ \E i \in 1..Len(requests) :
        /\ IsFresh(i) /\ Done(i)
        /\ requests[i].api_calls = 1
        /\ ~requests[i].envelope.success
    /\ \E i \in 1..Len(requests) :
        /\ IsFresh(i) /\ Done(i)
        /\ requests[i].envelope.success

\* C10: with the requests' tasks interleaved at their awaits, the waiting
\* list never holds two rows with the same phone_number string, and of the
\* valid requests carrying one phone_number string exactly one is accepted.
ValidWaiting(i) ==
    /\ requests[i].kind = "waiting"
    /\ validate_phone(requests[i].phone_number)
    /\ validate_username(requests[i].arg)

C10_OneRowPerPhone ==
    /\ \A k1 \in 1..Len(waiting_list), k2 \in 1..Len(waiting_list) :
        waiting_list[k1].phone_number = waiting_list[k2].phone_number => k1 = k2
    /\ \A i \in 1..Len(requests) :
        ValidWaiting(i) =>
            Cardinality({ j \in 1..Len(requests) :
                /\ ValidWaiting(j)
                /\ requests[j].phone_number = requests[i].phone_number
                /\ requests[j].row_id > 0 }) = 1

\* a second request arrives while the first one, with the same phone_number,
\* is suspended in its network call
C10_Witness ==
    \E i \in 1..Len(requests), j \in 1..Len(requests) :
        /\ i < j
        /\ ValidWaiting(i) /\ ValidWaiting(j)
        /\ requests[i].phone_number = requests[j].phone_number
        /\ requests[i].pc = "awaiting"
        /\ requests[j].row_id = 0
        /\ Len(waiting_list) = 1

\* ------------------------------------------------- claims on the normaliser
Normalised == nphase # "off" /\ nphase # "input"
PayloadBuilt == nphase \in SendKinds

\* C6: the normaliser is idempotent on every input string.
C6_Idempotent == nphase = "twice" => nagain = nout

\* an input with an interior '+' and one with a leading 0 behind a '+'
C6_Witness ==
    /\ nphase = "twice"
    /\ nraw = <<"0", "+", "0">>

\* C7: for every subscriber number S, the spellings 0S, 254S and +254S, also
\* with whitespace around them and separator characters inside them, all
\* normalise to +254S.
Unseparated(s) == SelectSeq(s, LAMBDA c : c \notin SepChars)

C7_SpellingsAgree ==
    Normalised =>
        \A S \in Subscribers :
            \A spelling \in Spellings(S) :
                (validate_phone(spelling) /\ Unseparated(nraw) = spelling) =>
                    nout = <<"+", "2", "5", "4">> \o S

C7_Witness ==
    /\ Normalised
    /\ \E S \in Subscribers :
        /\ validate_phone(<<"0">> \o S)
        /\ Unseparated(nraw) = <<"0">> \o S
        /\ Head(nraw) = " "
        /\ \E k \in 2..(Len(nraw) - 1) :
            nraw[k] = "-" /\ IsDigit(nraw[k - 1]) /\ IsDigit(nraw[k + 1])

\* C8 (as claimed): every string the normaliser returns, and so the `to` of
\* every payload, is one '+' followed by one or more decimal digits.
Canonical(s) ==
    /\ Len(s) >= 2
    /\ s[1] = Plus
    /\ \A k \in 2..Len(s) : s[k] \in AsciiDigits

C8_AlwaysCanonical ==
    /\ Normalised => Canonical(nout)
    /\ PayloadBuilt => Canonical(npayload.to)

\* C8 (amended): the normaliser's result starts with '+' and holds nothing
\* but '+' and characters str.isdigit() accepts; it is one '+' followed by
\* one or more digits 0-9 exactly when the input holds at least one isdigit
\* character, none outside 0-9, and no '+' behind its first digit or '+'.
\* The `to` of every payload is the normaliser's result for the phone given.
Kept(raw, k) == IsDigit(raw[k]) \/ raw[k] = Plus
WellFormed(raw) ==
    /\ \E k \in 1..Len(raw) : IsDigit(raw[k])
    /\ \A k \in 1..Len(raw) : IsDigit(raw[k]) => raw[k] \in AsciiDigits
    /\ \A k \in 1..Len(raw) :
        raw[k] = Plus => \A j \in 1..(k - 1) : ~Kept(raw, j)

C8_CanonicalWhenWellFormed ==
    /\ Normalised =>
        /\ Len(nout) >= 1
        /\ nout[1] = Plus
        /\ \A k \in 1..Len(nout) : Kept(nout, k)
        /\ Canonical(nout) <=> WellFormed(nraw)
    /\ PayloadBuilt => npayload.to = nout

C8_Witness ==
    /\ PayloadBuilt
    /\ nraw = <<"0", "-", "2">>
    /\ Canonical(npayload.to)
    /\ npayload.to = <<"+", "2", "5", "4", "2">>
=============================================================================
